---- MODULE Spec2Model ----
(***************************************************************************)
(* A model of the dptree handler engine: handlers in continuation-passing  *)
(* style (src/src/handler/core.rs), the endpoint constructor with its      *)
(* dependency resolution (src/src/handler/endpoint.rs), and one execution  *)
(* of a handler tree as an abstract machine that takes one step per        *)
(* closure call or await.                                                   *)
(***************************************************************************)
EXTENDS Integers, Sequences, FiniteSets, TLC

\* ------------------------------------------------------------------ bounds

\* Largest number of leaf handlers in a tree.
MaxLeaves == 3

\* ------------------------------------------------------------- containers

\* The type identities a container is indexed by.
Types == {"A", "B"}

\* The values stored in containers; the engine never looks inside one.
Vals == {1}

\* A container maps each inserted type to its one value; the domain is the
\* set of types inserted so far.
Containers == UNION {[S -> Vals] : S \in SUBSET Types}

\* Container insert: the latest insertion of a type wins.
Insert(c, t, v) == [u \in (DOMAIN c) \cup {t} |-> IF u = t THEN v ELSE c[u]]

\* Container lookup succeeds exactly for the inserted types.
Has(c, t) == t \in DOMAIN c

\* ----------------------------------------------------------------- outcomes

\* ControlFlow<Output, Input>: Break(output) or Continue(input).  The unused
\* side of a value holds a filler (0, the empty tuple) so that all outcomes
\* are comparable.
NoEv == << >>

Break(o) == [tag |-> "Break", out |-> o, ev |-> NoEv]

Continue(e) == [tag |-> "Continue", out |-> 0, ev |-> e]

\* A panic unwinding out of the dispatch: not a ControlFlow value at all.
Panicked == [tag |-> "Panic", out |-> 0, ev |-> NoEv]

IsBreak(r) == r.tag = "Break"

IsContinue(r) == r.tag = "Continue"

\* ----------------------------------------------------------------- handlers

NoHandler == [kind |-> "none"]

\* entry(): from_fn(|event, cont| cont(event)).
Entry == [kind |-> "entry", self |-> NoHandler, next |-> NoHandler, deps |-> {}, id |-> 0, at |-> << >>]

\* from_fn(|event, _cont| Continue(event)): a body that declines on its own.
Skip == [kind |-> "skip", self |-> NoHandler, next |-> NoHandler, deps |-> {}, id |-> 0, at |-> << >>]

\* from_fn(|event, cont| cont(g(event))): a body that hands a changed input on.
Map == [kind |-> "map", self |-> NoHandler, next |-> NoHandler, deps |-> {}, id |-> 0, at |-> << >>]

\* endpoint(f) for a function f declaring one parameter per type of deps.
Endpoint(i, d) == [kind |-> "endpoint", self |-> NoHandler, next |-> NoHandler, deps |-> d, id |-> i, at |-> << >>]

\* filter(pred): id names the predicate, which declares one parameter, the
\* number stored under type A.
Filter(p) == [kind |-> "filter", self |-> NoHandler, next |-> NoHandler, deps |-> {"A"}, id |-> p, at |-> << >>]

\* inspect(f) for a function f declaring one parameter per type of deps.
Inspect(d) == [kind |-> "inspect", self |-> NoHandler, next |-> NoHandler, deps |-> d, id |-> 0, at |-> << >>]

\* self.chain(next) and self.branch(next): the captured handlers.
Chain(a, b) == [kind |-> "chain", self |-> a, next |-> b, deps |-> {}, id |-> 0, at |-> << >>]

Branch(a, b) == [kind |-> "branch", self |-> a, next |-> b, deps |-> {}, id |-> 0, at |-> << >>]

\* --------------------------------------------------------- handler trees

\* The leaf handlers trees are built from.
Leaves == {Entry, Skip, Map, Endpoint(1, {}), Endpoint(2, {"A"})}

\* Every way to join a left and a right handler.
Joins(ls, rs) ==
    {Chain(a, b) : a \in ls, b \in rs} \cup {Branch(a, b) : a \in ls, b \in rs}

RECURSIVE TreesOf(_)
\* Every tree with exactly n leaves, built with chain and branch.
TreesOf(n) ==
    IF n = 1 THEN Leaves
    ELSE UNION {Joins(TreesOf(i), TreesOf(n - i)) : i \in 1..(n - 1)}

\* The trees with fewer than MaxLeaves leaves, by their number of leaves:
\* the two sides a chain or a branch at the root can have.
Sides == [n \in 1..(MaxLeaves - 1) |-> TreesOf(n)]

IsLeaf(h) == h.kind \notin {"chain", "branch"}

RECURSIVE Label(_, _)
\* The tree with every node marked by its position: 1 is the self side of
\* a chain or branch, 2 the next side.
Label(h, p) ==
    IF IsLeaf(h) THEN [h EXCEPT !.at = p]
    ELSE [h EXCEPT !.at = p,
                   !.self = Label(h.self, Append(p, 1)),
                   !.next = Label(h.next, Append(p, 2))]

RECURSIVE NodeAt(_, _)
\* The handler at position p of tree h.
NodeAt(h, p) ==
    IF p = << >> THEN h
    ELSE NodeAt(IF Head(p) = 1 THEN h.self ELSE h.next, Tail(p))

\* t is a tree the application built, every node marked with its position:
\* a leaf, or a chain or a branch of two smaller trees, with at most
\* MaxLeaves leaves in all.
IsBuilt(t) ==
    \/ t \in {Label(l, << >>) : l \in Leaves}
    \/ \E i, j \in 1..(MaxLeaves - 1) :
          /\ i + j <= MaxLeaves
          /\ \E a \in Sides[i], b \in Sides[j] :
                t \in {Label(Chain(a, b), << >>), Label(Branch(a, b), << >>)}

\* ------------------------------------------------------------ continuations

NoCont == [kind |-> "none"]

NoTable == << >>

\* The continuation dispatch passes: |event| Continue(event).
KDispatch == [kind |-> "dispatch", next |-> NoHandler, cont |-> NoCont, tbl |-> NoTable]

\* A continuation supplied by the caller of execute, given by its outcome on
\* every input.
KUser(t) == [kind |-> "user", next |-> NoHandler, cont |-> NoCont, tbl |-> t]

\* The continuation chain passes to self: |event| next.execute(event, cont).
KChain(n, k) == [kind |-> "chain", next |-> n, cont |-> k, tbl |-> NoTable]

\* The continuation branch passes to self: dispatch next, then cont on Continue.
KBranch(n, k) == [kind |-> "branch", next |-> n, cont |-> k, tbl |-> NoTable]

\* The output of the continuation of test_execute.
UserOut == 99

\* Caller continuations: one that always terminates, and one that terminates
\* only when type B is in the container and declines otherwise.
UserTables ==
    {[e \in Containers |-> Break(UserOut)],
     [e \in Containers |-> IF Has(e, "B") THEN Break(UserOut) ELSE Continue(e)]}

\* dispatch(x) and execute(x, cont).
Calls == {KDispatch} \cup {KUser(t) : t \in UserTables}

\* ------------------------------------------------------------- the machine

\* A log entry: a handler called (with its position in the tree), or the
\* continuation of a dispatch or of the caller called; depth is the number of
\* inner dispatches in progress, 0 for the caller's own continuation.
Called(h, e, d) == [what |-> "exec", kind |-> h.kind, at |-> h.at, ev |-> e, depth |-> d]

ContCalled(e, d) == [what |-> "cont", kind |-> "cont", at |-> << >>, ev |-> e, depth |-> d]

\* One execution is a record: pc is what happens next ("exec": handler h is
\* called with ev and continuation k; "apply": continuation k is called with
\* ev; "ret": a future has completed with res; "panic": unwinding), stack
\* holds the futures awaiting an inner dispatch, log the calls made so far.
Start(h, e, k) ==
    [pc |-> "exec", h |-> h, ev |-> e, k |-> k, res |-> Continue(NoEv),
     stack |-> << >>, log |-> << Called(h, e, 0) >>]

\* Calling continuation k with e.
Invoke(c, k, e) ==
    [c EXCEPT !.pc = "apply", !.h = NoHandler, !.k = k, !.ev = e]

\* A future completing with outcome r.
Return(c, r) ==
    [c EXCEPT !.pc = "ret", !.h = NoHandler, !.k = NoCont, !.ev = NoEv, !.res = r]

\* Calling handler h with e and continuation k: (self.f)(container, cont).
Execute(c, h, e, k) ==
    [c EXCEPT !.pc = "exec", !.h = h, !.k = k, !.ev = e,
              !.log = Append(c.log, Called(h, e, Len(c.stack)))]

\* The execution is over: the outermost future has completed or panicked.
Done(c) == c.pc = "panic" \/ (c.pc = "ret" /\ c.stack = << >>)

\* A failure that the innermost branch awaiting a dispatch takes for a
\* decline: the execution goes on with the input the failing handler had.
PanicCaught(c) ==
    IF c.stack = << >>
    THEN [c EXCEPT !.pc = "panic", !.h = NoHandler, !.k = NoCont, !.ev = NoEv,
                   !.res = Panicked]
    ELSE Return(c, Continue(c.ev))

\* A panic unwinds every pending future of the execution.
Panic(c) ==
    [c EXCEPT !.pc = "panic", !.h = NoHandler, !.k = NoCont, !.ev = NoEv,
              !.res = Panicked, !.stack = << >>]

\* An entry that puts a value of its own into the container it passes on.
EntryBodyChanges(c) == Invoke(c, c.k, Insert(c.ev, "B", 1))

\* An entry that declines by itself instead of calling its continuation.
EntryBodyDeclines(c) == Return(c, Continue(c.ev))

\* entry: |event, cont| cont(event).
EntryBody(c) == Invoke(c, c.k, c.ev)

\* |event, _cont| Continue(event).
SkipBody(c) == Return(c, Continue(c.ev))

\* What the map body does to its input: it inserts a value of type B.
MapFn(e) == Insert(e, "B", 1)

\* |event, cont| cont(g(event)).
MapBody(c) == Invoke(c, c.k, MapFn(c.ev))

\* input.get() for a declared parameter of type t: the stored value, or no
\* value at all when t was never inserted.
Get(e, t) == IF Has(e, t) THEN {e[t]} ELSE {}

\* The predicates of the filters of the examples and tests: num == 5,
\* num == 1, num > 2, num < 0, num == -1, num == 0, num > 0.
Preds == {"eq5", "eq1", "gt2", "lt0", "eqm1", "eq0", "gt0"}

Holds(p, n) ==
    CASE p = "eq5" -> n = 5
      [] p = "eq1" -> n = 1
      [] p = "gt2" -> n > 2
      [] p = "lt0" -> n < 0
      [] p = "eqm1" -> n = -1
      [] p = "eq0" -> n = 0
      [] p = "gt0" -> n > 0

\* The filter body: the parameter of the predicate is fetched from the
\* input; when the predicate holds the continuation is called with the
\* input, otherwise the body completes with Continue of the input and the
\* continuation is left alone.
FilterBody(c) ==
    IF \A t \in c.h.deps : Get(c.ev, t) # {}
    THEN IF Holds(c.h.id, c.ev["A"])
         THEN Invoke(c, c.k, c.ev)
         ELSE Return(c, Continue(c.ev))
    ELSE Panic(c)

RECURSIVE SumOf(_, _)
SumOf(e, ts) ==
    IF ts = {} THEN 0
    ELSE LET t == CHOOSE u \in ts : TRUE
         IN  (CHOOSE v \in Get(e, t) : TRUE) + SumOf(e, ts \ {t})

\* A resolver that hands the function default values instead of the values
\* stored in the container.
EndpointFnDefaults(h, e) == 10 * h.id

\* The user function of endpoint h applied to its resolved parameters.
EndpointFn(h, e) == 10 * h.id + SumOf(e, h.deps)

\* A log entry: the user function of an endpoint called.
FnCalled(h, e, d) == [what |-> "body", kind |-> h.kind, at |-> h.at, ev |-> e, depth |-> d]

\* An inspect that adds the return value of its function to the container
\* it passes on, as map does.
InspectBodyAdds(c) ==
    IF \A t \in c.h.deps : Get(c.ev, t) # {}
    THEN Invoke([c EXCEPT !.log = Append(c.log, FnCalled(c.h, c.ev, Len(c.stack)))],
                c.k, Insert(c.ev, "B", 1))
    ELSE Panic(c)

\* The inspect body: f.inject(&x) fetches the declared parameters from the
\* input, f is called and awaited, then cont(x) is called with the input
\* and awaited; a failed fetch panics before f is called.
InspectBody(c) ==
    IF \A t \in c.h.deps : Get(c.ev, t) # {}
    THEN Invoke([c EXCEPT !.log = Append(c.log, FnCalled(c.h, c.ev, Len(c.stack)))],
                c.k, c.ev)
    ELSE Panic(c)

\* An endpoint that completes with Continue after its function has run.
EndpointBodyContinues(c) ==
    IF \A t \in c.h.deps : Get(c.ev, t) # {}
    THEN Return([c EXCEPT !.log = Append(c.log, FnCalled(c.h, c.ev, Len(c.stack)))],
                Continue(c.ev))
    ELSE Panic(c)

\* An endpoint that declines when a declared parameter is missing.
EndpointBodyDeclines(c) ==
    IF \A t \in c.h.deps : Get(c.ev, t) # {}
    THEN Return([c EXCEPT !.log = Append(c.log, FnCalled(c.h, c.ev, Len(c.stack)))],
                Break(EndpointFn(c.h, c.ev)))
    ELSE Return(c, Continue(c.ev))

\* The endpoint body and its DiFn closure: every declared parameter is
\* fetched from the input, then the user function is called and its output
\* wrapped in Break; a failed fetch panics before the function is called,
\* and nothing on the way catches the panic.
EndpointBody(c) ==
    IF \A t \in c.h.deps : Get(c.ev, t) # {}
    THEN Return([c EXCEPT !.log = Append(c.log, FnCalled(c.h, c.ev, Len(c.stack)))],
                Break(EndpointFn(c.h, c.ev)))
    ELSE Panic(c)

\* A chain that runs next as a root of its own and forgets the caller's
\* continuation.
ChainContForgetsCont(next, cont) == KChain(next, KDispatch)

\* chain: the continuation handed to self.
ChainCont(next, cont) == KChain(next, cont)

\* A chain that leaves self out and runs next at once.
ChainBodyRunsNextOnly(c) == Execute(c, c.h.next, c.ev, c.k)

\* A chain that runs self a second time in the place of next.
ChainBodyRunsSelfTwice(c) == Execute(c, c.h.self, c.ev, ChainCont(c.h.self, c.k))

\* A chain that runs next first and self second.
ChainBodyNextFirst(c) == Execute(c, c.h.next, c.ev, ChainCont(c.h.self, c.k))

\* chain: this.execute(event, <continuation>).
ChainBody(c) == Execute(c, c.h.self, c.ev, ChainCont(c.h.next, c.k))

\* A chain continuation that calls cont at once and leaves next out.
ChainContBodySkipsNext(c) == Invoke(c, c.k.cont, c.ev)

\* A chain continuation that dispatches next as a root of its own and calls
\* cont when that declines, as the branch continuation does.
ChainContBodyDispatches(c) ==
    Execute([c EXCEPT !.stack = Append(c.stack, [cont |-> c.k.cont])],
            c.k.next, c.ev, KDispatch)

\* The chain continuation called: next.execute(event, |event| cont(event)).
ChainContBody(c) == Execute(c, c.k.next, c.ev, c.k.cont)

\* A branch that hands next the caller's continuation, as chain does.
BranchContChains(next, cont) == KChain(next, cont)

\* branch: the continuation handed to self.
BranchCont(next, cont) == KBranch(next, cont)

\* A branch that tries next first and self second.
BranchBodySwapped(c) == Execute(c, c.h.next, c.ev, BranchCont(c.h.self, c.k))

\* branch: this.execute(event, <continuation>).
BranchBody(c) == Execute(c, c.h.self, c.ev, BranchCont(c.h.next, c.k))

\* The future awaiting next.dispatch(event) inside the branch continuation.
Awaiting(cont) == [cont |-> cont]

\* A branch continuation that leaves its alternative out and calls the
\* outer continuation at once.
BranchContBodySkipsNext(c) == Invoke(c, c.k.cont, c.ev)

\* The branch continuation called: next.dispatch(event) is started, which is
\* next.clone().execute(event, |event| Continue(event)).
BranchContBody(c) ==
    Execute([c EXCEPT !.stack = Append(c.stack, Awaiting(c.k.cont))],
            c.k.next, c.ev, KDispatch)

\* A match that never resumes: the future awaiting the dispatch stays
\* pending for ever.
BranchResumeStalls(c) == c

\* A match that completes with the Continue of the dispatch instead of
\* falling through to cont.
BranchResumeGivesUp(c) ==
    [c EXCEPT !.stack = SubSeq(c.stack, 1, Len(c.stack) - 1)]

\* A match that falls through to cont with a fresh, empty container.
BranchResumeDropsInput(c) ==
    LET n == Len(c.stack)
        f == c.stack[n]
        d == [c EXCEPT !.stack = SubSeq(c.stack, 1, n - 1)]
    IN  IF IsContinue(c.res) THEN Invoke(d, f.cont, NoEv) ELSE d

\* The match on the awaited dispatch: Continue(event) => cont(event).await,
\* done => done.
BranchResume(c) ==
    LET n == Len(c.stack)
        f == c.stack[n]
        d == [c EXCEPT !.stack = SubSeq(c.stack, 1, n - 1)]
    IN  IF IsContinue(c.res) THEN Invoke(d, f.cont, c.res.ev) ELSE d

\* A dispatch continuation that gives back an empty container instead of
\* the leftover it received.
DispatchContBodyDrops(c) ==
    Return([c EXCEPT !.log = Append(c.log, ContCalled(c.ev, Len(c.stack)))],
           Continue(NoEv))

\* The continuation of dispatch called: |event| Continue(event).
DispatchContBody(c) ==
    Return([c EXCEPT !.log = Append(c.log, ContCalled(c.ev, Len(c.stack)))],
           Continue(c.ev))

\* The caller's continuation called: it completes with its outcome for the
\* input, or panics.
UserContBody(c) ==
    LET d == [c EXCEPT !.log = Append(c.log, ContCalled(c.ev, Len(c.stack)))]
    IN  IF c.k.tbl[c.ev] = Panicked THEN Panic(d) ELSE Return(d, c.k.tbl[c.ev])

\* The one step an unfinished execution takes.
Step(c) ==
    CASE c.pc = "exec" /\ c.h.kind = "entry" -> EntryBody(c)
      [] c.pc = "exec" /\ c.h.kind = "skip" -> SkipBody(c)
      [] c.pc = "exec" /\ c.h.kind = "map" -> MapBody(c)
      [] c.pc = "exec" /\ c.h.kind = "filter" -> FilterBody(c)
      [] c.pc = "exec" /\ c.h.kind = "inspect" -> InspectBody(c)
      [] c.pc = "exec" /\ c.h.kind = "endpoint" -> EndpointBody(c)
      [] c.pc = "exec" /\ c.h.kind = "chain" -> ChainBody(c)
      [] c.pc = "exec" /\ c.h.kind = "branch" -> BranchBody(c)
      [] c.pc = "apply" /\ c.k.kind = "chain" -> ChainContBody(c)
      [] c.pc = "apply" /\ c.k.kind = "branch" -> BranchContBody(c)
      [] c.pc = "apply" /\ c.k.kind = "dispatch" -> DispatchContBody(c)
      [] c.pc = "apply" /\ c.k.kind = "user" -> UserContBody(c)
      [] c.pc = "ret" /\ c.stack # << >> -> BranchResume(c)

RECURSIVE Run(_)
\* The finished execution an execution runs to.
Run(c) == IF Done(c) THEN c ELSE Run(Step(c))

\* handler.execute(e, k) awaited to the end: its outcome and its whole record.
ExecuteAll(h, e, k) == Run(Start(h, e, k))

Outcome(h, e, k) == ExecuteAll(h, e, k).res

\* Continuation k called with e and awaited to the end.
CallCont(k, e) ==
    Run([pc |-> "apply", h |-> NoHandler, ev |-> e, k |-> k,
         res |-> Continue(NoEv), stack |-> << >>, log |-> << >>])

\* ------------------------------------------------------------------- state

VARIABLES
    tree,   \* the handler built by the application
    input,  \* the container handed to dispatch or execute
    kont,   \* the continuation the caller supplied
    task    \* the execution in progress

vars == << tree, input, kont, task >>

Init ==
    /\ IsBuilt(tree)
    /\ input \in Containers
    /\ kont \in Calls
    /\ task = Start(tree, input, kont)

Exec(kind) == ~Done(task) /\ task.pc = "exec" /\ task.h.kind = kind

Apply(kind) == ~Done(task) /\ task.pc = "apply" /\ task.k.kind = kind

RunEntry == Exec("entry") /\ task' = EntryBody(task) /\ UNCHANGED << tree, input, kont >>

RunSkip == Exec("skip") /\ task' = SkipBody(task) /\ UNCHANGED << tree, input, kont >>

RunMap == Exec("map") /\ task' = MapBody(task) /\ UNCHANGED << tree, input, kont >>

RunFilter == Exec("filter") /\ task' = FilterBody(task) /\ UNCHANGED << tree, input, kont >>

RunInspect == Exec("inspect") /\ task' = InspectBody(task) /\ UNCHANGED << tree, input, kont >>

RunEndpoint == Exec("endpoint") /\ task' = EndpointBody(task) /\ UNCHANGED << tree, input, kont >>

RunChain == Exec("chain") /\ task' = ChainBody(task) /\ UNCHANGED << tree, input, kont >>

RunBranch == Exec("branch") /\ task' = BranchBody(task) /\ UNCHANGED << tree, input, kont >>

CallChainCont == Apply("chain") /\ task' = ChainContBody(task) /\ UNCHANGED << tree, input, kont >>

CallBranchCont == Apply("branch") /\ task' = BranchContBody(task) /\ UNCHANGED << tree, input, kont >>

CallDispatchCont == Apply("dispatch") /\ task' = DispatchContBody(task) /\ UNCHANGED << tree, input, kont >>

CallUserCont == Apply("user") /\ task' = UserContBody(task) /\ UNCHANGED << tree, input, kont >>

ResumeBranch ==
    /\ task.pc = "ret" /\ task.stack # << >>
    /\ task' = BranchResume(task)
    /\ UNCHANGED << tree, input, kont >>

Next ==
    \/ RunEntry
    \/ RunSkip
    \/ RunMap
    \/ RunEndpoint
    \/ RunChain
    \/ RunBranch
    \/ CallChainCont
    \/ CallBranchCont
    \/ CallDispatchCont
    \/ CallUserCont
    \/ ResumeBranch

Spec == Init /\ [][Next]_vars

\* Sanity of the model: the machine's steps and the run to completion agree.
StepAgrees == Done(task) \/ Run(task) = Run(Step(task))

\* ------------------------------------------------------ reading an execution

\* The positions in a log where the handler at tree position p was called.
ExecsAt(log, p) == {i \in DOMAIN log : log[i].what = "exec" /\ log[i].at = p}

\* The positions in a log where the caller's continuation was called.
OuterCalls(log) == {i \in DOMAIN log : log[i].what = "cont" /\ log[i].depth = 0}

\* Handler h, executed on e by itself, completes with Break without ever
\* calling the continuation it was given.
TerminatesAlone(h, e) ==
    LET r == ExecuteAll(h, e, KDispatch)
    IN  IsBreak(r.res) /\ OuterCalls(r.log) = {}

\* ------------------------------------------------------------------ chain

\* cont'(leftover) = next executed on (leftover, cont), as a table.
ThenNext(next, cont) == KUser([l \in Containers |-> Outcome(next, l, cont)])

\* C1: executing self.chain(next) on (x, cont) gives exactly the outcome of
\* executing self on (x, cont') where cont'(leftover) is next executed on
\* (leftover, cont); and when self terminates with an output without calling
\* its continuation, the chained handler terminates with that output and
\* neither next nor cont is ever called.
C1_ChainThreadsContinuation ==
    (Done(task) /\ tree.kind = "chain") =>
        /\ task.res = Outcome(tree.self, input, ThenNext(tree.next, kont))
        /\ TerminatesAlone(tree.self, input) =>
              /\ task.res = Outcome(tree.self, input, KDispatch)
              /\ ExecsAt(task.log, tree.next.at) = {}
              /\ OuterCalls(task.log) = {}

\* A chain whose self passed its input on, whose next ran and passed it on
\* again, and whose caller continuation then terminated.
C1_Witness ==
    /\ Done(task) /\ tree.kind = "chain" /\ kont.kind = "user"
    /\ ExecsAt(task.log, tree.next.at) # {}
    /\ OuterCalls(task.log) # {}
    /\ task.res = Break(UserOut)

\* A chain whose self terminated on its own.
C1_WitnessTerminated ==
    /\ Done(task) /\ tree.kind = "chain" /\ tree.self.kind = "branch"
    /\ TerminatesAlone(tree.self, input)
    /\ IsBreak(task.res)

\* ------------------------------------------------------------------ branch

\* cont''(leftover): next dispatched on the leftover as a root of its own;
\* a Break is the result, a Continue(l) goes to the caller's cont.
ElseNext(next, cont) ==
    KUser([l \in Containers |->
              LET r == Outcome(next, l, KDispatch)
              IN  IF IsContinue(r) THEN CallCont(cont, r.ev).res ELSE r])

\* The events the caller's continuation was called with, in order.
OuterArgs(log) ==
    LET calls == SelectSeq(log, LAMBDA en : en.what = "cont" /\ en.depth = 0)
    IN  [i \in DOMAIN calls |-> calls[i].ev]

\* C2: executing self.branch(next) on (x, cont) runs self with a continuation
\* that dispatches next on the leftover as an independent sub-root, next
\* being given the trivial continuation and not the outer cont; when that
\* dispatch terminates with o the branch handler terminates with o and the
\* outer cont is never called; when it declines with leftover l the outer
\* cont is called with exactly l and its outcome is the branch handler's.
C2_BranchDispatchesNext ==
    (Done(task) /\ tree.kind = "branch") =>
        /\ task.res = Outcome(tree.self, input, ElseNext(tree.next, kont))
        /\ \A i \in ExecsAt(task.log, tree.next.at) :
              LET r == Outcome(tree.next, task.log[i].ev, KDispatch)
              IN  /\ task.log[i].depth = 1
                  /\ IsBreak(r) => (task.res = r /\ OuterCalls(task.log) = {})
                  /\ IsContinue(r) =>
                        /\ OuterArgs(task.log) = << r.ev >>
                        /\ task.res = CallCont(kont, r.ev).res
        /\ ExecsAt(task.log, tree.next.at) = {} => OuterCalls(task.log) = {}

\* A branch whose self changed the input, whose next declined the changed
\* leftover, and whose caller continuation received it and terminated.
C2_Witness ==
    /\ Done(task) /\ tree.kind = "branch" /\ kont.kind = "user"
    /\ ExecsAt(task.log, tree.next.at) # {}
    /\ OuterArgs(task.log) = << MapFn(input) >> /\ MapFn(input) # input
    /\ task.res = Break(UserOut)

\* ------------------------------------------------------- chain, step by step

\* The leftovers handler h, executed on e by itself, calls its continuation
\* with.
PassedOn(h, e) == OuterArgs(ExecuteAll(h, e, KDispatch).log)

\* The events the handler at position p was called with, in order.
ArgsAt(log, p) ==
    LET calls == SelectSeq(log, LAMBDA en : en.what = "exec" /\ en.at = p)
    IN  [i \in DOMAIN calls |-> calls[i].ev]

\* C3 as claimed: in self.chain(next) executed with cont, whenever self
\* declines an input, control passes to next with that leftover, and when
\* next declines too, cont receives the leftover.
C3_DeclineReachesNext ==
    LET a == Outcome(tree.self, input, KDispatch)
        b == Outcome(tree.next, a.ev, KDispatch)
    IN  (Done(task) /\ tree.kind = "chain" /\ IsContinue(a)) =>
            /\ ArgsAt(task.log, tree.next.at) = << a.ev >>
            /\ IsContinue(b) => OuterArgs(task.log) = << b.ev >>

\* C3, amended: in self.chain(next) executed with cont, whenever self calls
\* its continuation with a leftover, control passes to next with that
\* leftover while cont is still pending beyond it, and when next calls its
\* continuation too, cont receives that leftover; when self completes
\* without calling its continuation, next and cont are never called and the
\* chain completes with the outcome of self.
C3_PassingOnReachesNext ==
    tree.kind = "chain" =>
        /\ (task.pc = "exec" /\ task.h = tree.next) =>
              /\ task.k = kont
              /\ task.stack = << >>
              /\ PassedOn(tree.self, input) = << task.ev >>
        /\ Done(task) =>
              LET passed == PassedOn(tree.self, input)
              IN  /\ ArgsAt(task.log, tree.next.at) = passed
                  /\ passed = << >> =>
                        /\ OuterCalls(task.log) = {}
                        /\ task.res = Outcome(tree.self, input, KDispatch)
                  /\ passed # << >> =>
                        /\ Len(passed) = 1
                        /\ OuterArgs(task.log) = PassedOn(tree.next, passed[1])

\* A chain at the moment its next is called with a changed leftover, the
\* caller's continuation pending.
C3_Witness ==
    /\ tree.kind = "chain" /\ task.pc = "exec" /\ task.h = tree.next
    /\ task.ev # input /\ task.k = kont /\ kont.kind = "user"
    /\ tree.next.kind \in {"entry", "map"}

\* ------------------------------------------------- branch: bias and isolation

\* Position q lies in the subtree at position p.
Under(p, q) == Len(p) <= Len(q) /\ SubSeq(q, 1, Len(p)) = p

\* The positions in a log where a handler of the subtree at p was called.
ExecsUnder(log, p) ==
    {i \in DOMAIN log : log[i].what = "exec" /\ Under(p, log[i].at)}

\* C4: branch left-bias: when a terminates on x, then during the execution
\* of a.branch(b) on x the handler b is never called.
C4_BranchLeftBias ==
    (tree.kind = "branch" /\ IsBreak(Outcome(tree.self, input, KDispatch))) =>
        /\ ExecsUnder(task.log, tree.next.at) = {}
        /\ ~(task.pc = "exec" /\ Under(tree.next.at, task.h.at))
        /\ Done(task) => task.res = Outcome(tree.self, input, KDispatch)

\* A finished a.branch(b) where a, itself a tree, terminated.
C4_Witness ==
    /\ Done(task) /\ tree.kind = "branch" /\ ~IsLeaf(tree.self)
    /\ IsBreak(Outcome(tree.self, input, KDispatch))
    /\ IsBreak(task.res)

\* Some handler of the tree changed the input on the way.
InputChanged(log) ==
    \E i \in DOMAIN log : log[i].what = "exec" /\ log[i].kind = "map"

Without(log, ps) ==
    SelectSeq(log, LAMBDA en : ~(en.what = "exec" /\ en.at \in ps))

\* C6: entry() is a left and right identity of chain: for every handler a,
\* every input and every continuation, a.chain(entry()) and
\* entry().chain(a) each produce the same outcome as a, and call the same
\* handler bodies and the continuation the same number of times with the
\* same arguments, in the same order, as a does.
C6_EntryIsIdentity ==
    /\ (Done(task) /\ tree.kind = "chain" /\ tree.next.kind = "entry") =>
          LET a == ExecuteAll(tree.self, input, kont)
          IN  /\ task.res = a.res
              /\ Without(task.log, {tree.at, tree.next.at}) = a.log
    /\ (Done(task) /\ tree.kind = "chain" /\ tree.self.kind = "entry") =>
          LET a == ExecuteAll(tree.next, input, kont)
          IN  /\ task.res = a.res
              /\ Without(task.log, {tree.at, tree.self.at}) = a.log

\* A finished a.chain(entry()) in which a, a tree itself, passed its input
\* on through the entry to the caller's continuation.
C6_Witness ==
    /\ Done(task) /\ tree.kind = "chain" /\ tree.next.kind = "entry"
    /\ ~IsLeaf(tree.self) /\ kont.kind = "user"
    /\ ExecsAt(task.log, tree.next.at) # {}
    /\ OuterCalls(task.log) # {}

\* A finished entry().chain(a) in which a terminated.
C6_WitnessLeft ==
    /\ Done(task) /\ tree.kind = "chain" /\ tree.self.kind = "entry"
    /\ ~IsLeaf(tree.next) /\ IsBreak(task.res) /\ OuterCalls(task.log) = {}

\* C7: chain is associative: for all handlers a, b, c, every input and every
\* continuation, a.chain(b).chain(c) and a.chain(b.chain(c)) give identical
\* outcomes, also when a handler returns Continue itself without calling
\* its continuation, or terminates.
C7_ChainAssociative ==
    ( /\ Done(task) /\ tree.kind = "chain" /\ tree.self.kind = "chain" ) =>
        task.res = Outcome(Chain(tree.self.self, Chain(tree.self.next, tree.next)),
                           input, kont)

\* A finished a.chain(b).chain(c) in which a and b passed the input on and
\* c returned Continue itself, the caller's continuation left out.
C7_Witness ==
    /\ Done(task) /\ tree.kind = "chain" /\ tree.self.kind = "chain"
    /\ kont.kind = "user"
    /\ ExecsAt(task.log, tree.next.at) # {}
    /\ tree.next.kind = "skip"
    /\ IsContinue(task.res)

\* ---------------------------------------------------------------- ordering

\* Position p comes before q in the declared left-to-right, depth-first
\* order: a node before its subtrees, the self side before the next side.
Before(p, q) ==
    \/ Len(p) < Len(q) /\ SubSeq(q, 1, Len(p)) = p
    \/ \E i \in 1..Len(p) :
          /\ i <= Len(q)
          /\ SubSeq(p, 1, i - 1) = SubSeq(q, 1, i - 1)
          /\ p[i] < q[i]

\* The positions of the handlers called so far, in the order of the calls.
Order(log) ==
    LET calls == SelectSeq(log, LAMBDA en : en.what = "exec")
    IN  [i \in DOMAIN calls |-> calls[i].at]

\* The number of branches on the way to position p that p lies on the next
\* side of: the dispatches enclosing a handler called at p.
Enclosing(p) ==
    Cardinality({i \in 1..Len(p) :
        p[i] = 2 /\ NodeAt(tree, SubSeq(p, 1, i - 1)).kind = "branch"})

\* C8: within one dispatch of a tree, handler bodies are called strictly in
\* declared left-to-right, depth-first order: once a handler of a later
\* sibling has been called, no handler of an earlier sibling is called any
\* more, and no handler is called twice; and while a handler runs, the only
\* futures awaiting a dispatch are those of the branches it lies on the next
\* side of, never one of a sibling.
C8_DeclaredOrder ==
    /\ LET o == Order(task.log)
       IN  \A i, j \in DOMAIN o : i < j => Before(o[i], o[j])
    /\ task.pc = "exec" => Len(task.stack) = Enclosing(task.h.at)
    /\ \A i \in DOMAIN task.log :
          task.log[i].what = "exec" => task.log[i].depth = Enclosing(task.log[i].at)

\* A finished dispatch of a.branch(b).branch(c) in which a, b and c were
\* all called.
C8_Witness ==
    /\ Done(task) /\ kont = KDispatch
    /\ tree.kind = "branch" /\ tree.self.kind = "branch"
    /\ Order(task.log) = << << >>, <<1>>, <<1, 1>>, <<1, 2>>, <<2>> >>

\* --------------------------------------------------------------- endpoints

\* The endpoints called so far whose declared parameters were all in the
\* container they were called with, and those with one missing.
EndpointCalls(log, present) ==
    {i \in DOMAIN log :
        /\ log[i].what = "exec" /\ log[i].kind = "endpoint"
        /\ (NodeAt(tree, log[i].at).deps \subseteq DOMAIN log[i].ev) = present}

\* C9: endpoint totality: for every function f whose declared dependencies
\* are all present in the input container, executing endpoint(f) with any
\* continuation yields Break carrying the output of f, never Continue, and
\* the supplied continuation is never called: f is called once, and nothing
\* is called after it.
C9_EndpointTotality ==
    \A i \in EndpointCalls(task.log, TRUE) :
        LET h == NodeAt(tree, task.log[i].at)
        IN  \/ /\ task.pc = "exec"
               /\ task.h = h
               /\ i = Len(task.log)
            \/ /\ task.pc = "ret"
               /\ task.res = Break(EndpointFn(h, task.log[i].ev))
               /\ Len(task.log) = i + 1
               /\ task.log[i + 1] = FnCalled(h, task.log[i].ev, task.log[i].depth)

\* An endpoint with a declared parameter, called under a chain one dispatch
\* deep with a pending continuation, has terminated the whole execution.
C9_Witness ==
    /\ Done(task) /\ kont.kind = "user"
    /\ \E i \in EndpointCalls(task.log, TRUE) :
          /\ NodeAt(tree, task.log[i].at).deps # {}
          /\ task.log[i].depth = 1
          /\ Len(task.log[i].at) = 2
    /\ IsBreak(task.res) /\ task.res.out # UserOut

\* C10: missing-dependency fatality: dispatching a tree whose endpoint
\* declares a parameter of type T, on a container T was never inserted into,
\* ends in a resolution failure whenever the endpoint is reached: never in
\* Continue, never in Break, and the function of the endpoint is not run.
C10_MissingDependencyFatal ==
    /\ \A i \in EndpointCalls(task.log, FALSE) :
          /\ \/ task.pc = "exec" /\ task.h = NodeAt(tree, task.log[i].at)
             \/ Done(task) /\ task.res = Panicked
          /\ i = Len(task.log)
    /\ (Done(task) /\ tree.kind = "endpoint" /\ ~(tree.deps \subseteq DOMAIN input))
          => (task.res = Panicked /\ task.log = << Called(tree, input, 0) >>)

\* A dispatch that reached, two branches deep, an endpoint whose parameter
\* was missing, and ended in the failure.
C10_Witness ==
    /\ Done(task) /\ kont = KDispatch /\ task.res = Panicked
    /\ tree.kind = "branch"
    /\ \E i \in EndpointCalls(task.log, FALSE) : task.log[i].depth = 2

\* ------------------------------------------------------ failure propagation

\* The calls of handlers that fail when dispatched by themselves on the
\* input they were called with.
FailingCalls(log) ==
    {i \in DOMAIN log :
        /\ log[i].what = "exec"
        /\ Outcome(NodeAt(tree, log[i].at), log[i].ev, KDispatch) = Panicked}

\* C11: failure propagation: when a handler nested anywhere under chain and
\* branch fails, the failure reaches the caller of the execution as a
\* failure: the execution does not end in Declined or Terminated, the
\* caller's continuation is not called, nothing outside the failing handler
\* is called after it was called (no later sibling, no continuation pending
\* at its level or further out), and the failing handler is called once.
C11_FailurePropagates ==
    Done(task) =>
        \A i \in FailingCalls(task.log) :
            /\ task.res = Panicked
            /\ OuterCalls(task.log) = {}
            /\ Cardinality(ExecsAt(task.log, task.log[i].at)) = 1
            /\ \A j \in DOMAIN task.log :
                  j > i =>
                     /\ task.log[j].what # "body"
                     /\ task.log[j].what = "exec" =>
                           Under(task.log[i].at, task.log[j].at)
                     /\ task.log[j].what = "cont" =>
                           task.log[j].depth > task.log[i].depth

\* An endpoint with a missing parameter failed one dispatch deep inside a
\* chain: the branch awaiting it, the next of the chain and the caller's
\* continuation were all pending, and none was called.
C11_Witness ==
    /\ Done(task) /\ task.res = Panicked
    /\ tree.kind = "chain" /\ tree.self.kind = "branch" /\ kont.kind = "user"
    /\ \E i \in EndpointCalls(task.log, FALSE) :
          task.log[i].depth = 1 /\ task.log[i].at = tree.self.next.at
    /\ ExecsAt(task.log, tree.next.at) = {}

\* ------------------------------------------------------- dispatch and entry

\* k(leftover) = Declined(leftover), as a continuation a caller of execute
\* supplies.
IdentityCont == KUser([l \in Containers |-> Continue(l)])

\* C12: dispatch(handler, x) is execute(handler, x, k) with
\* k(leftover) = Declined(leftover): the outcomes are the same and the same
\* calls are made with the same arguments; and for a handler made by from_fn
\* dispatch gives what its body gives: Break(o) for a body returning
\* Break(o), Continue(x) for a body returning Continue(x), and Continue of
\* the value passed for a body that calls its continuation.
C12_DispatchIsExecute ==
    (Done(task) /\ kont = KDispatch) =>
        /\ task.res = Outcome(tree, input, IdentityCont)
        /\ task.log = ExecuteAll(tree, input, IdentityCont).log
        /\ (tree.kind = "endpoint" /\ tree.deps \subseteq DOMAIN input) =>
              task.res = Break(EndpointFn(tree, input))
        /\ tree.kind = "skip" =>
              (task.res = Continue(input) /\ OuterCalls(task.log) = {})
        /\ tree.kind = "entry" => task.res = Continue(input)
        /\ tree.kind = "map" => task.res = Continue(MapFn(input))
        /\ IsContinue(task.res) =>
              (OuterArgs(task.log) = << >> \/ OuterArgs(task.log) = << task.res.ev >>)

\* A dispatch of a from_fn handler whose body called its continuation with
\* a changed value, ending in Continue of that value.
C12_Witness ==
    /\ Done(task) /\ kont = KDispatch /\ tree.kind = "map"
    /\ MapFn(input) # input
    /\ OuterArgs(task.log) = << MapFn(input) >>
    /\ task.res = Continue(MapFn(input))

\* C13: entry() never filters: executed on any input x with any continuation
\* cont it calls cont exactly with x, once, and completes with the outcome
\* of cont unchanged, so that entry().dispatch(x) is Declined(x) and entry
\* executed with a continuation that terminates with o is Terminated(o);
\* and wherever an entry is called in a tree, the call that follows it is
\* that of its continuation, with the same input.
C13_EntryNeverFilters ==
    /\ (Done(task) /\ tree.kind = "entry") =>
          /\ OuterArgs(task.log) = << input >>
          /\ task.res = CallCont(kont, input).res
          /\ kont = KDispatch => task.res = Continue(input)
          /\ (kont.kind = "user" /\ IsBreak(kont.tbl[input])) =>
                task.res = Break(UserOut)
    /\ \A i \in DOMAIN task.log :
          (task.log[i].what = "exec" /\ task.log[i].kind = "entry") =>
              \/ /\ i = Len(task.log)
                 /\ task.pc \in {"exec", "apply"}
                 /\ task.ev = task.log[i].ev
                 /\ task.pc = "exec" => task.h.kind = "entry"
              \/ /\ i < Len(task.log)
                 /\ task.log[i + 1].what \in {"exec", "cont"}
                 /\ task.log[i + 1].ev = task.log[i].ev

\* entry() executed with a continuation that terminated.
C13_Witness ==
    /\ Done(task) /\ tree.kind = "entry" /\ kont.kind = "user"
    /\ input # NoEv
    /\ OuterArgs(task.log) = << input >>
    /\ task.res = Break(UserOut)

\* ---------------------------------------------------- concurrent dispatches

\* The dispatches of one tree that run at the same time.
Dispatchers == {"d1", "d2"}

\* handler.dispatch(container) called by dispatch d with its own container
\* es[d]: the shared handler is cloned and executed on that container with
\* a continuation of its own.
DispatchOf(h, es, d) == Start(h, es[d], KDispatch)

\* One tree, built once, and one dispatch of it per dispatcher: under
\* SpecShared input[d] is the container of dispatch d and task[d] its
\* execution; the tree is the only thing the dispatches share.
InitShared ==
    /\ \E n \in DOMAIN Sides : \E a \in Sides[n] : tree = Label(a, << >>)
    /\ input \in [Dispatchers -> Containers]
    /\ kont = KDispatch
    /\ task = [d \in Dispatchers |-> DispatchOf(tree, input, d)]

\* A step that keeps the state of an execution in one place shared by all
\* the dispatches.
PolledClobbers(d, c) ==
    /\ task' = [e \in Dispatchers |-> c]
    /\ UNCHANGED << tree, input, kont >>

\* The future of dispatch d polled: its execution, which it owns, takes one
\* step to c; the handler, shared, is only read.
Polled(d, c) ==
    /\ task' = [task EXCEPT ![d] = c]
    /\ UNCHANGED << tree, input, kont >>

ExecIn(c, kind) == ~Done(c) /\ c.pc = "exec" /\ c.h.kind = kind

ApplyIn(c, kind) == ~Done(c) /\ c.pc = "apply" /\ c.k.kind = kind

PollEntry == \E d \in Dispatchers : ExecIn(task[d], "entry") /\ Polled(d, EntryBody(task[d]))

PollSkip == \E d \in Dispatchers : ExecIn(task[d], "skip") /\ Polled(d, SkipBody(task[d]))

PollMap == \E d \in Dispatchers : ExecIn(task[d], "map") /\ Polled(d, MapBody(task[d]))

PollEndpoint == \E d \in Dispatchers : ExecIn(task[d], "endpoint") /\ Polled(d, EndpointBody(task[d]))

PollChain == \E d \in Dispatchers : ExecIn(task[d], "chain") /\ Polled(d, ChainBody(task[d]))

PollBranch == \E d \in Dispatchers : ExecIn(task[d], "branch") /\ Polled(d, BranchBody(task[d]))

PollChainCont == \E d \in Dispatchers : ApplyIn(task[d], "chain") /\ Polled(d, ChainContBody(task[d]))

PollBranchCont == \E d \in Dispatchers : ApplyIn(task[d], "branch") /\ Polled(d, BranchContBody(task[d]))

PollDispatchCont == \E d \in Dispatchers : ApplyIn(task[d], "dispatch") /\ Polled(d, DispatchContBody(task[d]))

PollResume ==
    \E d \in Dispatchers :
        /\ task[d].pc = "ret" /\ task[d].stack # << >>
        /\ Polled(d, BranchResume(task[d]))

\* The executor polls the futures of the dispatches in any order.
NextShared ==
    \/ PollEntry
    \/ PollSkip
    \/ PollMap
    \/ PollEndpoint
    \/ PollChain
    \/ PollBranch
    \/ PollChainCont
    \/ PollBranchCont
    \/ PollDispatchCont
    \/ PollResume

SpecShared == InitShared /\ [][NextShared]_vars

\* C14: concurrent dispatch safety: when one tree built once is dispatched
\* by several dispatches at the same time, each with its own container,
\* then under every interleaving every dispatch is, at each moment, on the
\* way of the dispatch of its input alone and ends in that outcome; it sees
\* only its own input, never the input or the pending calls of another
\* dispatch; what it runs are the handlers of the tree; and no step changes
\* the tree or a container.
C14_ConcurrentDispatchSafe ==
    /\ [](\A d \in Dispatchers :
            /\ Run(task[d]) = ExecuteAll(tree, input[d], KDispatch)
            /\ Done(task[d]) => task[d].res = Outcome(tree, input[d], KDispatch)
            /\ \A i \in DOMAIN task[d].log :
                  task[d].log[i].ev \in {input[d], MapFn(input[d])}
            /\ task[d].pc = "exec" => task[d].h = NodeAt(tree, task[d].h.at))
    /\ [][tree' = tree /\ input' = input]_vars

\* Two dispatches of one tree on different containers, both over, each
\* declined with its own leftover; and one dispatch over while the other
\* still awaits an inner dispatch.
C14_Witness ==
    /\ input["d1"] # input["d2"] /\ ~IsLeaf(tree)
    /\ Done(task["d1"]) /\ Done(task["d2"])
    /\ task["d1"].res = Continue(MapFn(input["d1"]))
    /\ task["d2"].res = Continue(MapFn(input["d2"]))
    /\ task["d1"].res # task["d2"].res

C14_WitnessInterleaved ==
    /\ input["d1"] # input["d2"]
    /\ Done(task["d1"]) /\ IsBreak(task["d1"].res)
    /\ task["d2"].pc = "exec" /\ task["d2"].stack # << >>
    /\ Len(task["d2"].log) > 1

\* ------------------------------------------------- trees of filtered cases

\* Largest number of branches under the entry of a flat tree.
MaxBranches == 3

\* The numbers dispatched.
Nums == {-2, -1, 0, 1, 2, 3, 5}

\* deps![n]: a container holding the number n.
Deps(n) == Insert(NoEv, "A", n)

\* filter(p).endpoint(f), which is filter(p).chain(endpoint(f)); the
\* function takes no parameter and its output is numbered o.
Guarded(p, o) == Chain(Filter(p), Endpoint(o, {}))

\* What the i-th branch of a tree can be: a filtered endpoint or an
\* unconditional one.
Cases(i) == {Guarded(p, i) : p \in Preds} \cup {Endpoint(i, {})}

RECURSIVE FlatTrees(_)
\* entry().branch(c1)...branch(cn).
FlatTrees(n) ==
    IF n = 0 THEN {Entry}
    ELSE {Branch(t, c) : t \in FlatTrees(n - 1), c \in Cases(n)}

\* filter(p).branch(s1).branch(s2): a sub-tree with a filter at its head.
SubTree(p, s1, s2) == Branch(Branch(Filter(p), s1), s2)

\* The tree of the example of branch: outputs Five, One, GT are 10, 20, 30.
FirstMatchExample ==
    Branch(Branch(Branch(Entry, Guarded("eq5", 1)), Guarded("eq1", 2)),
           Guarded("gt2", 3))

\* The tree of test_deeply_nested_tree: outputs MinusOne, LT, Zero, One, GT
\* are 10, 20, 30, 40, 50.
NestedExample ==
    Branch(Branch(Branch(Entry,
                         SubTree("lt0", Guarded("eqm1", 1), Endpoint(2, {}))),
                  Guarded("eq0", 3)),
           SubTree("gt0", Guarded("eq1", 4), Endpoint(5, {})))

\* A dispatch of a filtered endpoint, of a flat tree, of a tree whose first
\* branch is a sub-tree with a filter at its head, or of the nested tree of
\* the test, on a container holding one number.
InitMatch ==
    /\ \/ \E p \in Preds : tree = Label(Guarded(p, 1), << >>)
       \/ \E n \in 1..MaxBranches :
             \E t \in FlatTrees(n - 1), c \in Cases(n) :
                tree = Label(Branch(t, c), << >>)
       \/ \E p \in Preds, s1 \in Cases(1), s2 \in Cases(2), t \in Cases(3) :
             tree = Label(Branch(Branch(Entry, SubTree(p, s1, s2)), t), << >>)
       \/ tree = Label(NestedExample, << >>)
    /\ \E n \in Nums : input = Deps(n)
    /\ kont = KDispatch
    /\ task = Start(tree, input, kont)

NextMatch ==
    \/ RunEntry
    \/ RunFilter
    \/ RunEndpoint
    \/ RunChain
    \/ RunBranch
    \/ CallChainCont
    \/ CallBranchCont
    \/ CallDispatchCont
    \/ ResumeBranch

SpecMatch == InitMatch /\ [][NextMatch]_vars

\* ------------------------------------------------------ first-match dispatch

RECURSIVE IsFlat(_)
\* t is entry().branch(c1)...branch(cn) for some handlers c1..cn.
IsFlat(t) == t.kind = "entry" \/ (t.kind = "branch" /\ IsFlat(t.self))

RECURSIVE CasesOf(_)
\* The handlers c1..cn of a flat tree, in the order of the branches.
CasesOf(t) == IF t.kind = "entry" THEN << >> ELSE Append(CasesOf(t.self), t.next)

\* h is filter(p).endpoint(f).
IsGuarded(h) == h.kind = "chain" /\ h.self.kind = "filter" /\ h.next.kind = "endpoint"

\* The smallest number of a set of numbers.
Least(S) == CHOOSE i \in S : \A j \in S : i <= j

\* C15: first-match dispatch over a flat tree: for
\* entry().branch(filter(p1).endpoint(o1))...branch(filter(pn).endpoint(on))
\* and every input x, dispatch returns Terminated(o_i) for the smallest i
\* with p_i(x) true, no case after the i-th being called, and Declined(x)
\* with the original input when no p_i holds; for the predicates x == 5,
\* x == 1, x > 2: 5 gives five, 1 gives one, 3 gives gt, 0 gives Declined(0).
C15_FirstMatch ==
    /\ ( /\ Done(task) /\ IsFlat(tree)
         /\ \A i \in DOMAIN CasesOf(tree) : IsGuarded(CasesOf(tree)[i]) ) =>
          LET cs == CasesOf(tree)
              hits == {i \in DOMAIN cs : Holds(cs[i].self.id, input["A"])}
          IN  /\ hits = {} => task.res = Continue(input)
              /\ hits # {} =>
                    /\ task.res = Break(EndpointFn(cs[Least(hits)].next, input))
                    /\ \A j \in DOMAIN cs :
                          j > Least(hits) => ExecsUnder(task.log, cs[j].at) = {}
    /\ (Done(task) /\ tree = Label(FirstMatchExample, << >>)) =>
          /\ input = Deps(5) => task.res = Break(10)
          /\ input = Deps(1) => task.res = Break(20)
          /\ input = Deps(3) => task.res = Break(30)
          /\ input = Deps(0) => task.res = Continue(Deps(0))

\* The tree of the example dispatched on 3: the cases x == 5 and x == 1 were
\* tried and declined, and the case x > 2 terminated.
C15_Witness ==
    /\ Done(task) /\ tree = Label(FirstMatchExample, << >>) /\ input = Deps(3)
    /\ ExecsAt(task.log, <<1, 1, 2>>) # {}
    /\ ExecsAt(task.log, <<1, 2>>) # {}
    /\ task.res = Break(30)

\* The tree of the example dispatched on 0: every case declined.
C15_WitnessDeclined ==
    /\ Done(task) /\ tree = Label(FirstMatchExample, << >>) /\ input = Deps(0)
    /\ ExecsAt(task.log, <<2>>) # {}
    /\ task.res = Continue(Deps(0))

\* ----------------------------------------------------- guarded sub-trees

\* t is entry().branch(filter(p).branch(s1).branch(s2)).branch(t').
HasGuardedSubTree(t) ==
    /\ t.kind = "branch" /\ t.self.kind = "branch" /\ t.self.self.kind = "entry"
    /\ t.self.next.kind = "branch" /\ t.self.next.self.kind = "branch"
    /\ t.self.next.self.self.kind = "filter"

\* C16: a filter at the head of a sub-tree guards the whole sub-tree: in
\* entry().branch(filter(p).branch(s1).branch(s2)).branch(t) the inner
\* alternatives s1 and s2 are tried, in that order, only for inputs that
\* satisfy p, the first of s1, s2, t that terminates giving the outcome; for
\* inputs failing p the sub-tree declines without s1 or s2 being called and
\* t is tried; so in the nested negative/zero/positive tree -1 gives
\* MinusOne, any other negative LT, 0 Zero, 1 One and any other positive GT.
C16_FilterGuardsSubTree ==
    /\ HasGuardedSubTree(tree) =>
          LET p == tree.self.next.self.self
              s1 == tree.self.next.self.next
              s2 == tree.self.next.next
              t == tree.next
              r1 == Outcome(s1, input, KDispatch)
              r2 == Outcome(s2, input, KDispatch)
          IN  /\ ~Holds(p.id, input["A"]) =>
                    /\ ExecsUnder(task.log, s1.at) = {}
                    /\ ExecsUnder(task.log, s2.at) = {}
                    /\ ~(task.pc = "exec" /\ Under(tree.self.next.at, task.h.at)
                                          /\ task.h.at \notin {tree.self.next.at,
                                                               tree.self.next.self.at,
                                                               p.at})
                    /\ Done(task) =>
                          /\ ArgsAt(task.log, t.at) = << input >>
                          /\ task.res = Outcome(t, input, KDispatch)
              /\ (Holds(p.id, input["A"]) /\ Done(task)) =>
                    /\ ArgsAt(task.log, s1.at) = << input >>
                    /\ IsBreak(r1) =>
                          /\ task.res = r1
                          /\ ExecsUnder(task.log, s2.at) = {}
                          /\ ExecsUnder(task.log, t.at) = {}
                    /\ (IsContinue(r1) /\ IsBreak(r2)) =>
                          /\ task.res = r2
                          /\ ArgsAt(task.log, s2.at) = << input >>
                          /\ ExecsUnder(task.log, t.at) = {}
                    /\ (IsContinue(r1) /\ IsContinue(r2)) =>
                          /\ task.res = Outcome(t, input, KDispatch)
                          /\ ArgsAt(task.log, s2.at) = << input >>
                          /\ ArgsAt(task.log, t.at) = << input >>
                    /\ \A i \in ExecsAt(task.log, s1.at), j \in ExecsAt(task.log, s2.at) :
                          i < j
    /\ (Done(task) /\ tree = Label(NestedExample, << >>)) =>
          LET n == input["A"]
          IN  task.res = Break(CASE n = -1 -> 10
                                 [] n < -1 -> 20
                                 [] n = 0 -> 30
                                 [] n = 1 -> 40
                                 [] n > 1 -> 50)

\* The nested tree dispatched on 1: the negative sub-tree declined at its
\* filter without its alternatives being called, the zero case declined, the
\* filter of the positive sub-tree passed and its first alternative gave One.
C16_Witness ==
    /\ Done(task) /\ tree = Label(NestedExample, << >>) /\ input = Deps(1)
    /\ ExecsAt(task.log, <<1, 1, 2, 1, 1>>) # {}
    /\ ExecsUnder(task.log, <<1, 1, 2, 1, 2>>) = {}
    /\ ExecsUnder(task.log, <<1, 1, 2, 2>>) = {}
    /\ ExecsAt(task.log, <<2, 1, 2>>) # {}
    /\ task.res = Break(40)

\* A tree of the general form on an input failing the filter of the
\* sub-tree: the next top-level branch was tried and terminated.
C16_WitnessFallsThrough ==
    /\ Done(task) /\ HasGuardedSubTree(tree)
    /\ ~Holds(tree.self.next.self.self.id, input["A"])
    /\ tree.self.next.next.kind = "endpoint"
    /\ ExecsAt(task.log, tree.next.at) # {}
    /\ IsBreak(task.res)

\* ------------------------------------------------------ filtered endpoints

\* C17: for filter(p).chain(endpoint(f)), which is what filter(p).endpoint(f)
\* builds, and every input x: when p(x) holds, dispatch returns Break with
\* the output of f, f having run once; when p(x) does not hold, dispatch
\* returns Continue carrying the same input x, not Break, and neither the
\* endpoint nor f has run.
C17_FilteredEndpoint ==
    (Done(task) /\ IsGuarded(tree)) =>
        /\ Holds(tree.self.id, input["A"]) =>
              /\ task.res = Break(EndpointFn(tree.next, input))
              /\ task.log[Len(task.log)] = FnCalled(tree.next, input, 0)
              /\ ArgsAt(task.log, tree.next.at) = << input >>
        /\ ~Holds(tree.self.id, input["A"]) =>
              /\ task.res = Continue(input)
              /\ ~IsBreak(task.res)
              /\ ExecsAt(task.log, tree.next.at) = {}
              /\ \A i \in DOMAIN task.log : task.log[i].what = "exec"

\* filter(x > 2).endpoint(f) dispatched on -2: Continue of the container
\* holding -2, the endpoint never called.
C17_Witness ==
    /\ Done(task) /\ IsGuarded(tree) /\ tree.self.id = "gt2"
    /\ input = Deps(-2)
    /\ ExecsAt(task.log, tree.next.at) = {}
    /\ task.res = Continue(Deps(-2))

\* filter(x > 2).endpoint(f) dispatched on 5: Break with the output of f.
C17_WitnessPassed ==
    /\ Done(task) /\ IsGuarded(tree) /\ tree.self.id = "gt2"
    /\ input = Deps(5)
    /\ task.res = Break(EndpointFn(tree.next, input))

\* --------------------------------------------- containers the caller builds

\* Largest number of insertions before the dispatch.
MaxInserts == 3

\* The values the caller inserts.
Stored == {1, 2}

\* What insert gives back: the value of that type stored before, if any.
InsertReturns(c, t) == Get(c, t)

\* A log entry: the caller inserted v for type t and got prior back.
Inserted(t, v, prior) ==
    [what |-> "insert", kind |-> t, at |-> << >>, ev |-> NoEv, depth |-> 0,
     val |-> v, prior |-> prior]

\* The caller before the dispatch, filling the container.
Building ==
    [pc |-> "build", h |-> NoHandler, ev |-> NoEv, k |-> NoCont,
     res |-> Continue(NoEv), stack |-> << >>, log |-> << >>]

\* An endpoint with declared parameters, by itself, chained to an entry and
\* as the branch of an entry.
DiTrees ==
    UNION {{Endpoint(1, d), Chain(Entry, Endpoint(1, d)), Branch(Entry, Endpoint(1, d))} :
              d \in SUBSET Types}

\* A tree is built and the container is new and empty.
InitDi ==
    /\ \E t \in DiTrees : tree = Label(t, << >>)
    /\ input = NoEv
    /\ kont = KDispatch
    /\ task = Building

\* store.insert(value).
InsertValue ==
    /\ task.pc = "build" /\ Len(task.log) < MaxInserts
    /\ \E t \in Types, v \in Stored :
          /\ input' = Insert(input, t, v)
          /\ task' = [task EXCEPT !.log = Append(@, Inserted(t, v, InsertReturns(input, t)))]
    /\ UNCHANGED << tree, kont >>

\* handler.dispatch(store).
Dispatch ==
    /\ task.pc = "build"
    /\ task' = Execute(task, tree, input, kont)
    /\ UNCHANGED << tree, input, kont >>

NextDi ==
    \/ InsertValue
    \/ Dispatch
    \/ RunEntry
    \/ RunEndpoint
    \/ RunChain
    \/ RunBranch
    \/ CallChainCont
    \/ CallBranchCont
    \/ ResumeBranch

SpecDi == InitDi /\ [][NextDi]_vars

\* The value of the latest insertion of type t in a log, if there is one.
Latest(log, t) ==
    LET at == {i \in DOMAIN log : log[i].what = "insert" /\ log[i].kind = t}
    IN  IF at = {} THEN {}
        ELSE {log[CHOOSE i \in at : \A j \in at : j <= i].val}

\* The parameter of type t a function declaring the types ds must receive
\* after the insertions of a log; 0 for a type it does not declare.
Param(log, t, ds) == IF t \in ds THEN CHOOSE v \in Latest(log, t) : TRUE ELSE 0

\* C18: dependency determinism: after any sequence of insertions, get of a
\* type returns the value of its latest insertion and nothing for a type
\* never inserted (at most one value per type), and every insert returned
\* the value of that type stored before, if any; an endpoint dispatched on
\* the container calls its function with exactly those values for the
\* parameters it declares; and every call made during the dispatch carries
\* the container as the caller built it: the engine inserts nothing.
C18_DependencyDeterminism ==
    /\ \A t \in Types : Get(input, t) = Latest(task.log, t)
    /\ \A i \in DOMAIN task.log :
          task.log[i].what = "insert" =>
              task.log[i].prior = Latest(SubSeq(task.log, 1, i - 1), task.log[i].kind)
    /\ \A i \in DOMAIN task.log :
          task.log[i].what \in {"exec", "body", "cont"} =>
              task.log[i].ev = input
    /\ \A i \in DOMAIN task.log :
          task.log[i].what = "body" =>
              LET h == NodeAt(tree, task.log[i].at)
              IN  /\ \A t \in h.deps :
                        /\ Latest(task.log, t) # {}
                        /\ Get(task.log[i].ev, t) = Latest(task.log, t)
                  /\ task.res = Break(10 * h.id + Param(task.log, "A", h.deps)
                                                + Param(task.log, "B", h.deps))

\* A type inserted twice with different values, the second insert giving
\* the first value back, and an endpoint declaring that type, dispatched
\* under a branch, that received the second value.
C18_Witness ==
    /\ Done(task) /\ tree.kind = "branch" /\ tree.next.deps = {"A"}
    /\ \E i, j \in DOMAIN task.log :
          /\ i < j
          /\ task.log[i].what = "insert" /\ task.log[i].kind = "A"
          /\ task.log[j].what = "insert" /\ task.log[j].kind = "A"
          /\ task.log[i].val = 1 /\ task.log[j].val = 2
          /\ task.log[j].prior = {1}
    /\ task.res = Break(12)

\* ---------------------------------------------------------------- termination

\* The executor keeps polling the future of the dispatch as long as it can
\* make a step.
FairSpec == Spec /\ WF_vars(Next)

\* The execution is over with one outcome: one Terminated(output) or one
\* Declined(input), or the failure when an endpoint could not be called.
OneOutcome ==
    /\ Done(task)
    /\ task.stack = << >>
    /\ IF EndpointCalls(task.log, FALSE) # {}
       THEN task.res = Panicked
       ELSE \/ IsBreak(task.res) /\ task.res.ev = NoEv
            \/ IsContinue(task.res) /\ task.res.out = 0 /\ task.res.ev \in Containers

\* C19: every execution of a finite tree whose handler bodies all complete
\* eventually finishes, and it finishes with exactly one terminal outcome,
\* one Terminated(output) or one Declined(input), which is never revised:
\* no step is taken once the outcome is there; and once a handler has
\* terminated with an output, nothing more is called in that execution.
C19_OneTerminalOutcome ==
    /\ <>[]OneOutcome
    /\ [](Done(task) => OneOutcome)
    /\ [](\A i \in DOMAIN task.log :
             task.log[i].what = "body" =>
                (i = Len(task.log) /\ task.pc = "ret" /\ IsBreak(task.res)))
    /\ [][~Done(task) /\ (IsBreak(task.res) => IsBreak(task'.res))]_vars

\* A dispatch over five handler calls and two inner dispatches that
\* finished in Declined.
C19_Witness ==
    /\ Done(task) /\ kont = KDispatch
    /\ Len(Order(task.log)) = 5
    /\ \E i \in DOMAIN task.log : task.log[i].depth = 2
    /\ IsContinue(task.res)

\* ------------------------------------------------- the unconditional last case

\* The positions in a log where the function of the endpoint at p was called.
BodiesAt(log, p) == {i \in DOMAIN log : log[i].what = "body" /\ log[i].at = p}

\* C20: a tree entry().branch(h1)...branch(hn).branch(endpoint(g)) whose
\* last branch is an unconditional endpoint never declines: dispatch on
\* every input returns Break; it returns the output of g, g having run,
\* exactly when every earlier branch h1..hn declined that input, and g is
\* not run for an input an earlier branch terminated on.
C20_LastEndpointCatchesAll ==
    ( /\ Done(task) /\ IsFlat(tree) /\ tree.kind = "branch"
      /\ tree.next.kind = "endpoint" ) =>
        LET hs == CasesOf(tree.self)
            declined == \A i \in DOMAIN hs : IsContinue(Outcome(hs[i], input, KDispatch))
        IN  /\ IsBreak(task.res)
            /\ declined <=> task.res = Break(EndpointFn(tree.next, input))
            /\ declined <=> BodiesAt(task.log, tree.next.at) # {}
            /\ declined <=> ExecsAt(task.log, tree.next.at) # {}
            /\ ~declined =>
                  LET first == Least({i \in DOMAIN hs :
                                        ~IsContinue(Outcome(hs[i], input, KDispatch))})
                  IN  task.res = Outcome(hs[first], input, KDispatch)

\* A tree of two filtered endpoints and an unconditional last one: both
\* filters were tried and failed, and the last endpoint gave the outcome.
C20_Witness ==
    /\ Done(task) /\ IsFlat(tree) /\ tree.kind = "branch"
    /\ tree.next.kind = "endpoint"
    /\ Len(CasesOf(tree)) = 3
    /\ \A i \in 1..2 : IsGuarded(CasesOf(tree)[i])
                       /\ ExecsAt(task.log, CasesOf(tree)[i].at) # {}
    /\ task.res = Break(30)

\* The same kind of tree on an input its first branch terminated on: the
\* last endpoint was never called.
C20_WitnessEarlier ==
    /\ Done(task) /\ IsFlat(tree) /\ tree.kind = "branch"
    /\ tree.next.kind = "endpoint"
    /\ Len(CasesOf(tree)) = 3 /\ IsGuarded(CasesOf(tree)[1])
    /\ ExecsAt(task.log, tree.next.at) = {}
    /\ task.res = Break(10)

\* ------------------------------------------------------------------ inspect

\* The inspecting handlers: one whose function takes no parameter and one
\* whose function declares a parameter of type A.
Inspects == {Inspect({}), Inspect({"A"})}

\* An inspect by itself, and chained or branched, on either side, with a
\* tree of fewer than MaxLeaves leaves.
InspectTrees ==
    Inspects
      \cup UNION {Joins({i}, Sides[n]) \cup Joins(Sides[n], {i}) :
                     i \in Inspects, n \in 1..(MaxLeaves - 1)}

InitInspect ==
    /\ \E t \in InspectTrees : tree = Label(t, << >>)
    /\ input \in Containers
    /\ kont \in Calls
    /\ task = Start(tree, input, kont)

NextInspect ==
    \/ RunInspect
    \/ RunEntry
    \/ RunSkip
    \/ RunMap
    \/ RunEndpoint
    \/ RunChain
    \/ RunBranch
    \/ CallChainCont
    \/ CallBranchCont
    \/ CallDispatchCont
    \/ CallUserCont
    \/ ResumeBranch

SpecInspect == InitInspect /\ [][NextInspect]_vars

RECURSIVE Plain(_)
\* The tree with entry() in the place of every inspect.
Plain(h) ==
    IF h.kind = "inspect" THEN [Entry EXCEPT !.at = h.at]
    ELSE IF IsLeaf(h) THEN h
    ELSE [h EXCEPT !.self = Plain(h.self), !.next = Plain(h.next)]

\* The calls of inspects so far, by whether the parameters their function
\* declares were all in the container they were called with.
InspectCalls(log, present) ==
    {i \in DOMAIN log :
        /\ log[i].what = "exec" /\ log[i].kind = "inspect"
        /\ (NodeAt(tree, log[i].at).deps \subseteq DOMAIN log[i].ev) = present}

\* C21: inspect(f) only observes: executed on input x with continuation cont
\* it runs f once, its parameters resolved from x, before the continuation,
\* then calls cont with the same x, unmodified (nothing is added to the
\* container), and completes with the outcome of cont unchanged; it never
\* declines or terminates on its own, so that a tree with an inspect makes
\* the calls and has the outcome of the tree with entry() in its place.
C21_InspectOnlyObserves ==
    /\ \A i \in InspectCalls(task.log, TRUE) :
          LET h == NodeAt(tree, task.log[i].at)
              x == task.log[i].ev
          IN  \/ /\ i = Len(task.log)
                 /\ task.pc = "exec" /\ task.h = h /\ task.ev = x
              \/ /\ i < Len(task.log)
                 /\ task.log[i + 1] = FnCalled(h, x, task.log[i].depth)
                 /\ Cardinality({j \in DOMAIN task.log :
                        task.log[j].what = "body" /\ task.log[j].at = h.at}) = 1
                 /\ \/ /\ i + 1 = Len(task.log)
                       /\ task.pc = "apply" /\ task.ev = x
                    \/ /\ i + 1 < Len(task.log)
                       /\ task.log[i + 2].what \in {"exec", "cont"}
                       /\ task.log[i + 2].ev = x
    /\ (Done(task) /\ InspectCalls(task.log, FALSE) = {}) =>
          LET plain == ExecuteAll(Plain(tree), input, kont)
          IN  /\ task.res = plain.res
              /\ Order(task.log) = Order(plain.log)
              /\ OuterArgs(task.log) = OuterArgs(plain.log)
    /\ ( /\ Done(task) /\ tree.kind = "inspect"
         /\ tree.deps \subseteq DOMAIN input ) =>
          /\ OuterArgs(task.log) = << input >>
          /\ task.res = CallCont(kont, input).res

\* An inspect whose function declares a parameter, chained before a
\* handler: the function ran, the handler was called with the input as it
\* was, and the caller's continuation terminated.
C21_Witness ==
    /\ Done(task) /\ tree.kind = "chain" /\ tree.self.kind = "inspect"
    /\ tree.self.deps = {"A"} /\ kont.kind = "user"
    /\ Len(task.log) >= 3
    /\ task.log[3] = FnCalled(tree.self, input, 0)
    /\ ArgsAt(task.log, tree.next.at) = << input >>
    /\ tree.next.kind = "entry"
    /\ OuterArgs(task.log) = << input >>
    /\ task.res = Break(UserOut)

\* ------------------------------------------------- continuation linearity

\* The log has no two calls of the same handler and no two runs of the same
\* function.
CalledOnce(log) ==
    \A i, j \in DOMAIN log :
        ( /\ log[i].what \in {"exec", "body"}
          /\ log[i].what = log[j].what
          /\ log[i].at = log[j].at ) => i = j

\* C22: continuation linearity: during one execution of a handler built by
\* chain and branch over leaf handlers that each call their continuation at
\* most once, the outer continuation given to the composed handler is
\* called at most once, and every handler of the tree, and the function of
\* every endpoint, is called at most once.
C22_ContinuationLinearity ==
    /\ Cardinality(OuterCalls(task.log)) <= 1
    /\ CalledOnce(task.log)

\* A chain of a branch and a handler, every handler of it called: the
\* alternative of the branch declined, the branch fell through to the
\* handler chained after it, and the outer continuation was called once.
C22_Witness ==
    /\ Done(task) /\ tree.kind = "chain" /\ tree.self.kind = "branch"
    /\ \A p \in {<< >>, << 1 >>, << 1, 1 >>, << 1, 2 >>, << 2 >>} :
          Cardinality(ExecsAt(task.log, p)) = 1
    /\ Cardinality(OuterCalls(task.log)) = 1
    /\ kont.kind = "user"
    /\ task.res = Break(UserOut)

====
